---- MODULE Spec2Model ----
(***************************************************************************)
(* Browser-session credential recovery of blacksmith-mcp                   *)
(* (src/src/utils/cookies.ts): the Credential Resolver getSessionCookie,   *)
(* the store-extraction pipeline extractBlacksmithCookie, the per-record   *)
(* value recovery getCookieValue and the Decryption Engine                 *)
(* decryptCookieValue.                                                     *)
(*                                                                         *)
(* Bytes are naturals 0..255, buffers are sequences of bytes, JavaScript   *)
(* strings are sequences of UTF-16 code units.  A `string | null` value is *)
(* a record: Null, or Str(s) for the string with code units s.             *)
(***************************************************************************)
EXTENDS Integers, Sequences, FiniteSets, TLC

VARIABLES
    \* ---- the resolver (getSessionCookie / extractBlacksmithCookie) ----
    platform,       \* process.platform, fixed for the life of the process
    envCookie,      \* process.env['BLACKSMITH_SESSION_COOKIE'] (Null when unset)
    pc,             \* position of the resolver call
    cookieDbPath,   \* local of extractBlacksmithCookie (Null until located)
    encryptionKey,  \* local of extractBlacksmithCookie (NoKey or a 16-byte key)
    handle,         \* the better-sqlite3 handle: "none", "open" or "closed"
    cookies,        \* rows returned by stmt.all
    pending,        \* completion of the inner try block, kept across `finally`
    selected,       \* index in cookies of the record whose value is returned (0: none)
    outcome,        \* how the call ended: "none", "returned" or "threw"
    result,         \* the value the call returned
    findCalls,      \* calls of findCookieDatabase in the current call
    keyCalls,       \* calls of getMacOSEncryptionKey in the current call
    openCalls,      \* calls of new Database(...) in the current call
    queryCalls,     \* calls of db.prepare in the current call
    failures,       \* the steps of the current call that failed
    \* ---- the Decryption Engine exercised on its own ----
    dPhase,         \* "idle", "plain", "stored" or "done"
    dPlain,         \* plaintext bytes handed to the store format
    dKey,           \* key the value was encrypted with
    dStored,        \* encrypted_value as held by the store
    dDecKey,        \* key passed to decryptCookieValue
    dOut,           \* value returned by decryptCookieValue
    \* ---- the environment of the process, where it is kept as state ----
    files,          \* the paths that exist in the file system
    keychain,       \* the "Chrome Safe Storage" item of the OS secret store
    store,          \* the rows of the cookies table of the browser's database
    schema,         \* the columns of the cookies table
    \* ---- createClientFromEnv, the caller of the resolver ----
    cpc,            \* position of createClientFromEnv
    sessionCookie,  \* local of createClientFromEnv
    client,         \* the BlacksmithClient it constructed (NoClient: none)
    thrown,         \* the error it threw (NoError: none)
    prev,           \* how the previous resolver call of the process ended
    raced,          \* the file system changed during the current resolver call
    \* ---- the log utils/cookies.ts wrote during the current resolver call ----
    logged,         \* the entries handed to logger.debug/info/warn/error
    \* ---- the MCP server (server.ts) and its CallTool handler ----
    srvClient,      \* `client` of createServer: NoClient or what getClient stored
    alive,          \* the server process is running
    unhandled,      \* a rejected promise without a handler is pending
    hpc,            \* position of the CallTool handler: "idle" or "settled"
    tool,           \* params.name of the current request
    caught,         \* the error the handler caught (NoError: none)
    response,       \* the response the handler returned last
    \* ---- a BlacksmithClient in use, and the backend ----
    apiClient,      \* the client executeTool was handed
    valid,          \* the session tokens the backend accepts
    sent,           \* the request of the current call: its cookie and the status answered
    expiredSeen,    \* a tool call was answered with SESSION_EXPIRED
    retry           \* the current call follows that answer and a fresh login

rvars == <<platform, envCookie, pc, cookieDbPath, encryptionKey, handle, cookies,
           pending, selected, outcome, result, findCalls, keyCalls, openCalls,
           queryCalls, failures>>
dvars == <<dPhase, dPlain, dKey, dStored, dDecKey, dOut>>
evars == <<files, keychain, store, schema>>
cvars == <<cpc, sessionCookie, client, thrown, prev, raced>>
hvars == <<srvClient, alive, unhandled, hpc, tool, caught, response, apiClient,
           valid, sent, expiredSeen, retry>>
lvars == <<logged>>
vars == <<rvars, dvars, evars, cvars, hvars, lvars>>

\* ------------------------------------------------------------------------
\* Values
\* ------------------------------------------------------------------------

Null == [kind |-> "null"]
Str(s) == [kind |-> "string", chars |-> s]

\* JavaScript truthiness of a `string | null | undefined` value: `if (v)`.
Truthy(v) == v.kind = "string" /\ Len(v.chars) > 0

NoKey == [kind |-> "null"]
Key(k) == [kind |-> "buffer", bytes |-> k]

\* 'v10' and 'eyJ' as bytes / code units.
V10 == <<118, 49, 48>>
EYJ == <<101, 121, 74>>

\* U+FFFD, what Buffer.toString('utf-8') emits for a byte it cannot decode.
Replacement == 65533

\* ------------------------------------------------------------------------
\* Byte and buffer primitives (Node's Buffer and String)
\* ------------------------------------------------------------------------

RECURSIVE XorBits(_, _, _)
XorBits(a, b, n) ==
    IF n = 0 THEN 0
    ELSE (((a % 2) + (b % 2)) % 2) + 2 * XorBits(a \div 2, b \div 2, n - 1)

Xor(a, b) == XorBits(a, b, 8)

Rep(b, n) == [i \in 1..n |-> b]

\* buf.slice(from) / str.slice(from), from a 0-based offset.
SliceFrom(s, from) == IF from >= Len(s) THEN <<>> ELSE SubSeq(s, from + 1, Len(s))

\* buf.slice(0, -n) for n > 0: a negative end counts from the end, clamped at 0.
DropLast(s, n) == IF n >= Len(s) THEN <<>> ELSE SubSeq(s, 1, Len(s) - n)

\* Buffer.toString('utf-8').  One- and two-byte sequences are decoded; every
\* other byte is an invalid sequence of its own and becomes U+FFFD.  (Lead
\* bytes 0xE0..0xF4 of three- and four-byte sequences are kept out of the
\* inputs, so they are never valid here.)
RECURSIVE Utf8(_)
Utf8(b) ==
    IF Len(b) = 0 THEN <<>>
    ELSE IF b[1] < 128 THEN <<b[1]>> \o Utf8(Tail(b))
    ELSE IF b[1] >= 194 /\ b[1] <= 223 /\ Len(b) >= 2 /\ b[2] >= 128 /\ b[2] <= 191
         THEN <<(b[1] - 192) * 64 + (b[2] - 128)>> \o Utf8(Tail(Tail(b)))
    ELSE <<Replacement>> \o Utf8(Tail(b))

\* Does pat occur in s at 0-based offset i?
OccursAt(s, pat, i) ==
    /\ i + Len(pat) <= Len(s)
    /\ \A j \in 1..Len(pat) : s[i + j] = pat[j]

\* String.prototype.indexOf: 0-based offset of the first occurrence, or -1.
IndexOf(s, pat) ==
    LET hits == {i \in 0..Len(s) : OccursAt(s, pat, i)}
    IN IF hits = {} THEN -1 ELSE CHOOSE i \in hits : \A j \in hits : i <= j

\* ------------------------------------------------------------------------
\* The store format: 'v10' + AES-128-CBC, IV of 16 spaces, PKCS#7 padding
\* ------------------------------------------------------------------------

\* AES block size in bytes, and the byte the IV is filled with (' ').
BlockSize == 16
IvByte == 32
\* Size of the MAC/metadata block Chrome may prepend to the value.
MacSize == 32

\* The block cipher itself is a library primitive.  It is modelled by a keyed
\* bijection on blocks that works byte by byte: position i of a block is
\* shifted by byte i of the key (mod 256).  CBC chaining, the IV and the
\* PKCS#7 padding are modelled as they are.
KeyByteAt(key, n) == key[((n - 1) % BlockSize) + 1]
EncByte(b, k) == (b + k) % 256
DecByte(c, k) == (c + 256 - k) % 256

Pkcs7Pad(p) ==
    LET n == BlockSize - (Len(p) % BlockSize) IN p \o Rep(n, n)

\* CBC encryption: c_j = E_k(p_j XOR c_{j-1}), c_0 = IV.
CbcEncrypt(p, key) ==
    LET c[n \in 1..Len(p)] ==
            EncByte(Xor(p[n], IF n <= BlockSize THEN IvByte ELSE c[n - BlockSize]),
                    KeyByteAt(key, n))
    IN [n \in 1..Len(p) |-> c[n]]

\* CBC decryption: p_j = D_k(c_j) XOR c_{j-1}, c_0 = IV.
CbcDecrypt(c, key) ==
    [n \in 1..Len(c) |->
        Xor(DecByte(c[n], KeyByteAt(key, n)),
            IF n <= BlockSize THEN IvByte ELSE c[n - BlockSize])]

\* What Chrome writes to encrypted_value for a cookie value p under key.
StoreEncrypt(p, key) == V10 \o CbcEncrypt(Pkcs7Pad(p), key)

\* Is the PKCS#7 padding of a raw decrypted buffer well formed?
Pkcs7Ok(raw) ==
    /\ Len(raw) > 0
    /\ LET n == raw[Len(raw)]
       IN /\ n >= 1 /\ n <= BlockSize /\ n <= Len(raw)
          /\ \A i \in (Len(raw) - n + 1)..Len(raw) : raw[i] = n

\* decipher.update(encrypted) followed by decipher.final(), with the default
\* auto-padding: final() throws on an empty or partial last block and on
\* malformed padding, and otherwise removes the padding itself.
DecipherFinal(encrypted, key) ==
    IF Len(encrypted) = 0 \/ Len(encrypted) % BlockSize # 0
    THEN [ok |-> FALSE, buf |-> <<>>]
    ELSE LET raw == CbcDecrypt(encrypted, key)
         IN IF Pkcs7Ok(raw)
            THEN [ok |-> TRUE, buf |-> DropLast(raw, raw[Len(raw)])]
            ELSE [ok |-> FALSE, buf |-> <<>>]

\* ------------------------------------------------------------------------
\* decryptCookieValue
\* ------------------------------------------------------------------------

\* "Remove PKCS7 padding": `if (padding && padding <= 16) slice(0, -padding)`.
\* padding is undefined (falsy) for an empty buffer.
StripPadding(decrypted) ==
    IF Len(decrypted) = 0 THEN decrypted
    ELSE LET padding == decrypted[Len(decrypted)]
         IN IF padding # 0 /\ padding <= 16
            THEN DropLast(decrypted, padding)
            ELSE decrypted

\* Payload recovery with the 32-byte skip tried before the marker search.
PayloadRecoverySkipFirst(decrypted) ==
    LET decryptedStr == Utf8(decrypted)
        base64Start == IndexOf(decryptedStr, EYJ)
        withoutMac == Utf8(SliceFrom(decrypted, MacSize))
    IN IF /\ Len(decrypted) > MacSize
          /\ decrypted[1] > 127
          /\ Len(withoutMac) > 0
          /\ withoutMac[1] < 127
       THEN withoutMac
       ELSE IF base64Start > 0
       THEN SliceFrom(decryptedStr, base64Start)
       ELSE decryptedStr

\* Payload recovery: marker search, 32-byte skip, raw fallback.
PayloadRecovery(decrypted) ==
    LET decryptedStr == Utf8(decrypted)
        base64Start == IndexOf(decryptedStr, EYJ)
        withoutMac == Utf8(SliceFrom(decrypted, MacSize))
    IN IF base64Start > 0
       THEN SliceFrom(decryptedStr, base64Start)
       ELSE IF /\ Len(decrypted) > MacSize
               /\ decrypted[1] > 127
               /\ Len(withoutMac) > 0
               /\ withoutMac[1] < 127
       THEN withoutMac
       ELSE decryptedStr

decryptCookieValue(encryptedValue, key) ==
    IF SubSeq(encryptedValue, 1, IF Len(encryptedValue) < 3 THEN Len(encryptedValue) ELSE 3) # V10
    THEN Str(Utf8(encryptedValue))
    ELSE LET fin == DecipherFinal(SliceFrom(encryptedValue, 3), key)
         IN IF ~fin.ok
            THEN Null                       \* caught at line 121
            ELSE Str(PayloadRecovery(StripPadding(fin.buf)))

\* ------------------------------------------------------------------------
\* Constants of cookies.ts
\* ------------------------------------------------------------------------

COOKIE_NAMES == <<"blacksmith_session", "session", "__session", "connect.sid">>

\* CHROME_COOKIE_PATHS: the candidate paths of each supported platform.
CHROME_COOKIE_PATHS ==
    [darwin |-> <<"~/Library/Application Support/Google/Chrome/Default/Cookies",
                  "~/Library/Application Support/Google/Chrome/Profile 1/Cookies">>,
     linux  |-> <<"~/.config/google-chrome/Default/Cookies",
                  "~/.config/chromium/Default/Cookies">>,
     win32  |-> <<"%LOCALAPPDATA%/Google/Chrome/User Data/Default/Network/Cookies">>]

\* ------------------------------------------------------------------------
\* Key Provider: getMacOSEncryptionKey
\* ------------------------------------------------------------------------

IsSpace(c) == c \in {9, 10, 13, 32}

\* String.prototype.trim
RECURSIVE TrimLeft(_)
TrimLeft(s) == IF Len(s) > 0 /\ IsSpace(s[1]) THEN TrimLeft(Tail(s)) ELSE s
RECURSIVE TrimRight(_)
TrimRight(s) ==
    IF Len(s) > 0 /\ IsSpace(s[Len(s)]) THEN TrimRight(SubSeq(s, 1, Len(s) - 1)) ELSE s
Trim(s) == TrimRight(TrimLeft(s))

RECURSIVE SumBytes(_)
SumBytes(s) == IF Len(s) = 0 THEN 0 ELSE s[1] + SumBytes(Tail(s))

\* pbkdf2Sync(password, 'saltysalt', 1003, 16, 'sha1') is a library primitive:
\* it is modelled by a deterministic function of the password giving 16 bytes.
Pbkdf2(password) ==
    [i \in 1..BlockSize |-> (SumBytes(password) * (2 * i + 1) + 13 * i) % 256]

\* kc is what `security find-generic-password` does: it throws (absent or
\* denied), or prints the secret.
getMacOSEncryptionKey(kc) ==
    IF kc.throws THEN NoKey ELSE Key(Pbkdf2(Trim(kc.stdout)))

\* ------------------------------------------------------------------------
\* Store Locator: findCookieDatabase
\* ------------------------------------------------------------------------

\* The last path of the list that exists.
LastExisting(paths, exists) ==
    LET idx == {i \in 1..Len(paths) : paths[i] \in exists}
    IN IF idx = {} THEN Null
       ELSE Str(paths[CHOOSE i \in idx : \A j \in idx : j <= i])

RECURSIVE FirstExisting(_, _)
FirstExisting(paths, exists) ==
    IF Len(paths) = 0 THEN Null
    ELSE IF paths[1] \in exists THEN Str(paths[1])
    ELSE FirstExisting(Tail(paths), exists)

\* exists is the set of paths for which existsSync answers true.
findCookieDatabase(plat, exists) ==
    IF plat \notin DOMAIN CHROME_COOKIE_PATHS THEN Null
    ELSE FirstExisting(CHROME_COOKIE_PATHS[plat], exists)

\* ------------------------------------------------------------------------
\* getCookieValue and the Selection Policy of extractBlacksmithCookie
\* ------------------------------------------------------------------------

\* getCookieValue with the encrypted value tried before the plain one.
getCookieValueDecryptFirst(cookie, key) ==
    IF Len(cookie.encrypted_value) > 0 /\ key.kind = "buffer"
    THEN decryptCookieValue(cookie.encrypted_value, key.bytes)
    ELSE IF Len(cookie.value) > 0 THEN Str(cookie.value)
    ELSE Null

getCookieValue(cookie, key) ==
    IF Len(cookie.value) > 0 THEN Str(cookie.value)
    ELSE IF Len(cookie.encrypted_value) > 0 /\ key.kind = "buffer"
    THEN decryptCookieValue(cookie.encrypted_value, key.bytes)
    ELSE Null

\* cookies.find((c) => c.name === name): index of the first such row, or 0.
FindByName(rows, name) ==
    LET hits == {i \in 1..Len(rows) : rows[i].name = name}
    IN IF hits = {} THEN 0 ELSE CHOOSE i \in hits : \A j \in hits : i <= j

\* The loop over COOKIE_NAMES with `value !== null` in place of `if (value)`.
RECURSIVE KnownNameIndexNotNull(_, _, _)
KnownNameIndexNotNull(rows, key, n) ==
    IF n > Len(COOKIE_NAMES) THEN 0
    ELSE LET i == FindByName(rows, COOKIE_NAMES[n])
         IN IF i # 0 /\ getCookieValue(rows[i], key) # Null
            THEN i
            ELSE KnownNameIndexNotNull(rows, key, n + 1)

\* "Look for known session cookie names first": index of the row returned by
\* the loop over COOKIE_NAMES from position n on, or 0.
RECURSIVE KnownNameIndex(_, _, _)
KnownNameIndex(rows, key, n) ==
    IF n > Len(COOKIE_NAMES) THEN 0
    ELSE LET i == FindByName(rows, COOKIE_NAMES[n])
         IN IF i # 0 /\ Truthy(getCookieValue(rows[i], key))
            THEN i
            ELSE KnownNameIndex(rows, key, n + 1)

\* "Fall back to any cookie": index of the first row, from row i on, with a
\* truthy value, or 0.
RECURSIVE AnyIndex(_, _, _)
AnyIndex(rows, key, i) ==
    IF i > Len(rows) THEN 0
    ELSE IF Truthy(getCookieValue(rows[i], key)) THEN i
    ELSE AnyIndex(rows, key, i + 1)

\* Index of the row whose value extractBlacksmithCookie returns (0: none).
SelectIndex(rows, key) ==
    LET k == KnownNameIndex(rows, key, 1)
    IN IF k # 0 THEN k ELSE AnyIndex(rows, key, 1)

\* ------------------------------------------------------------------------
\* Inputs
\* ------------------------------------------------------------------------

\* Largest number of rows the domain query returns.
MaxRows == 3

Platforms == {"darwin", "linux", "win32", "freebsd"}

\* BLACKSMITH_SESSION_COOKIE: unset, set to the empty string, set to "O".
Overrides == {Null, Str(<<>>), Str(<<79>>)}

\* The keychain command: fails, or prints one of two secrets and a newline.
SecretA == <<97>>
SecretB == <<98>>
KeychainOutcomes ==
    {[throws |-> TRUE, stdout |-> <<>>],
     [throws |-> FALSE, stdout |-> SecretA \o <<10>>],
     [throws |-> FALSE, stdout |-> SecretB \o <<10>>]}

\* The browser encrypted its cookies under the key of SecretA.
BrowserKey == Pbkdf2(SecretA)

\* What a row of the store can hold: a plain value "P"; nothing; the value
\* "T" encrypted by the browser (a key other than the browser's makes its
\* decryption throw).
RowPayloads ==
    {[value |-> <<80>>, encrypted_value |-> <<>>],
     [value |-> <<>>,   encrypted_value |-> <<>>],
     [value |-> <<>>,   encrypted_value |-> StoreEncrypt(<<84>>, BrowserKey)]}

RowNames == {"blacksmith_session", "session", "other"}

Rows == {[name |-> n, value |-> p.value, encrypted_value |-> p.encrypted_value] :
            n \in RowNames, p \in RowPayloads}

RowSeqs == UNION {[1..n -> Rows] : n \in 0..MaxRows}

PathsOf(plat) ==
    IF plat \in DOMAIN CHROME_COOKIE_PATHS
    THEN {CHROME_COOKIE_PATHS[plat][i] : i \in 1..Len(CHROME_COOKIE_PATHS[plat])}
    ELSE {}

\* ------------------------------------------------------------------------
\* The resolver, step by step
\* ------------------------------------------------------------------------

Return(v) == [kind |-> "return", value |-> v]
Throw == [kind |-> "throw"]
NoCompletion == [kind |-> "none"]

\* decryptCookieValue returns null only from its catch block.
DecryptThrows(cookie, key) ==
    /\ Len(cookie.value) = 0
    /\ Len(cookie.encrypted_value) > 0
    /\ key.kind = "buffer"
    /\ decryptCookieValue(cookie.encrypted_value, key.bytes) = Null

\* The rows getCookieValue is called on before extractBlacksmithCookie returns.
Examined(rows, key) ==
    LET k == KnownNameIndex(rows, key, 1)
        a == AnyIndex(rows, key, 1)
        last == IF k = 0 THEN Len(COOKIE_NAMES)
                ELSE CHOOSE n \in 1..Len(COOKIE_NAMES) : COOKIE_NAMES[n] = rows[k].name
        byName == {FindByName(rows, COOKIE_NAMES[n]) : n \in 1..last} \ {0}
        inOrder == IF k # 0 THEN {} ELSE 1..(IF a = 0 THEN Len(rows) ELSE a)
    IN byName \cup inOrder

\* ------------------------------------------------------------------------
\* The log: what utils/cookies.ts hands to the logger (utils/logger.ts writes
\* the message and JSON.stringify(data) to stderr)
\* ------------------------------------------------------------------------

NoData == [kind |-> "none"]
\* The error object of a catch clause.
ErrorData == [kind |-> "error"]

\* log(level, message, data); arg is the value interpolated in the message.
LogEntry(level, message, arg, data) ==
    [level |-> level, message |-> message, arg |-> arg, data |-> data]

\* Line 246.
GetSessionCookieLog(env) ==
    IF Truthy(env)
    THEN {LogEntry("info", "Using session cookie from BLACKSMITH_SESSION_COOKIE env var",
                   "", NoData)}
    ELSE {}

\* Line 156, then lines 135, 141 or 146 of findCookieDatabase.
FindCookieDatabaseLog(plat, path) ==
    {LogEntry("info", "Attempting to extract Blacksmith cookie from Chrome...",
              "", NoData)}
    \cup (IF plat \notin DOMAIN CHROME_COOKIE_PATHS
          THEN {LogEntry("warn", "Unsupported platform for cookie extraction: ",
                         plat, NoData)}
          ELSE IF Truthy(path)
          THEN {LogEntry("debug", "Found Chrome cookie database at: ",
                         path.chars, NoData)}
          ELSE {LogEntry("warn", "Chrome cookie database not found", "", NoData)})

\* Lines 66-68 and 167-169 with the secret and the key logged as well.
KeyProviderLogVerbose(kc) ==
    IF kc.throws
    THEN {LogEntry("warn", "Could not retrieve Chrome encryption key from keychain",
                   "", NoData)}
    ELSE {LogEntry("debug", "Chrome Safe Storage password", "", Str(Trim(kc.stdout))),
          LogEntry("debug", "Derived key", "", getMacOSEncryptionKey(kc))}

\* Lines 66-68 and 167-169: the catch clause binds no error and logs a fixed
\* text; extractBlacksmithCookie adds a warning when it got no key.
KeyProviderLog(kc) ==
    IF kc.throws
    THEN {LogEntry("warn", "Could not retrieve Chrome encryption key from keychain",
                   "", NoData),
          LogEntry("warn",
                   "Could not get Chrome encryption key, will try unencrypted values",
                   "", NoData)}
    ELSE {}

\* What getCookieValue logs for one record: line 122 from the catch clause of
\* decryptCookieValue, line 232 when there is no key.
GetCookieValueLog(cookie, key) ==
    IF Len(cookie.value) > 0 \/ Len(cookie.encrypted_value) = 0 THEN {}
    ELSE IF key.kind = "buffer"
    THEN IF DecryptThrows(cookie, key)
         THEN {LogEntry("debug", "Failed to decrypt cookie value", "", ErrorData)}
         ELSE {}
    ELSE {LogEntry("debug", "Cookie is encrypted but no decryption key available",
                   cookie.name, NoData)}

\* Lines 186-207: the records examined, then the record found or none.
SelectCookieLog(rows, key) ==
    LET k == KnownNameIndex(rows, key, 1)
        a == AnyIndex(rows, key, 1)
    IN UNION {GetCookieValueLog(rows[i], key) : i \in Examined(rows, key)}
       \cup (IF k # 0
             THEN {LogEntry("info", "Found Blacksmith session cookie: ",
                            rows[k].name, NoData)}
             ELSE IF a # 0
             THEN {LogEntry("info", "Found Blacksmith cookie: ", rows[a].name, NoData)}
             ELSE {LogEntry("warn", "No Blacksmith session cookie found in Chrome",
                            "", NoData)})

\* Line 213.
CatchLog == {LogEntry("error", "Failed to extract cookie from Chrome", "", ErrorData)}

RIdle ==
    /\ pc = "idle"
    /\ cookieDbPath = Null
    /\ encryptionKey = NoKey
    /\ handle = "none"
    /\ cookies = <<>>
    /\ pending = NoCompletion
    /\ selected = 0
    /\ outcome = "none"
    /\ result = Null
    /\ findCalls = 0
    /\ keyCalls = 0
    /\ openCalls = 0
    /\ queryCalls = 0
    /\ failures = {}

RInit ==
    /\ platform \in Platforms
    /\ envCookie \in Overrides
    /\ RIdle

DIdle ==
    /\ dPhase = "idle"
    /\ dPlain = <<>>
    /\ dKey = <<>>
    /\ dStored = <<>>
    /\ dDecKey = <<>>
    /\ dOut = Null

\* No client, no error, no earlier call.
NoClient == [kind |-> "none"]
NoError == [kind |-> "none"]
NoPrev == [kind |-> "none"]

\* The keychain item: `security find-generic-password` is refused, prints
\* the secret, or waits for an answer to the access dialog of the OS.
Keychain(access, secret) == [access |-> access, secret |-> secret]

\* The environment where it is an input of each step and not kept as state.
EIdle ==
    /\ files = {}
    /\ keychain = Keychain("denied", <<>>)
    /\ store = <<>>
    /\ schema = {}

CIdle ==
    /\ cpc = "idle"
    /\ sessionCookie = Null
    /\ client = NoClient
    /\ thrown = NoError
    /\ prev = NoPrev
    /\ raced = FALSE

\* No response returned yet.
NoResponse == [kind |-> "none"]

\* The server has not been asked for a tool, and no client is in use.
HIdle ==
    /\ srvClient = NoClient
    /\ alive = TRUE
    /\ unhandled = FALSE
    /\ hpc = "idle"
    /\ tool = ""
    /\ caught = NoError
    /\ response = NoResponse
    /\ apiClient = NoClient
    /\ valid = {}
    /\ sent = Null
    /\ expiredSeen = FALSE
    /\ retry = FALSE

\* Nothing logged.
LIdle == logged = {}

Init == RInit /\ DIdle /\ EIdle /\ CIdle /\ HIdle /\ LIdle

\* getSessionCookie without lines 244-248: the override is not looked at.
GetSessionCookieIgnoresOverride ==
    /\ pc = "idle"
    /\ pc' = "find"
    /\ UNCHANGED <<platform, envCookie, cookieDbPath, encryptionKey, handle, cookies,
                   pending, selected, findCalls, keyCalls, openCalls, queryCalls,
                   failures, result, outcome>>
    /\ UNCHANGED <<dvars, evars, cvars, hvars, lvars>>

\* getSessionCookie with the last token found kept at module level and
\* returned again.
GetSessionCookieCached ==
    /\ pc = "idle"
    /\ IF prev.kind = "call" /\ Truthy(prev.result)
       THEN /\ result' = prev.result
            /\ outcome' = "returned"
            /\ pc' = "done"
       ELSE IF Truthy(envCookie)
       THEN /\ result' = envCookie
            /\ outcome' = "returned"
            /\ pc' = "done"
       ELSE /\ pc' = "find"
            /\ UNCHANGED <<result, outcome>>
    /\ UNCHANGED <<platform, envCookie, cookieDbPath, encryptionKey, handle, cookies,
                   pending, selected, findCalls, keyCalls, openCalls, queryCalls,
                   failures>>
    /\ UNCHANGED <<dvars, evars, cvars, hvars, lvars>>

\* getSessionCookie: the override wins; otherwise extractBlacksmithCookie runs.
GetSessionCookie ==
    /\ pc = "idle"
    /\ IF Truthy(envCookie)
       THEN /\ result' = envCookie
            /\ outcome' = "returned"
            /\ pc' = "done"
       ELSE /\ pc' = "find"
            /\ UNCHANGED <<result, outcome>>
    /\ UNCHANGED <<platform, envCookie, cookieDbPath, encryptionKey, handle, cookies,
                   pending, selected, findCalls, keyCalls, openCalls, queryCalls,
                   failures>>
    /\ logged' = logged \cup GetSessionCookieLog(envCookie)
    /\ UNCHANGED <<dvars, evars, cvars, hvars>>

\* Lines 158-161 without the `if (!cookieDbPath) return null`.
FindCookieDatabaseNoCheck ==
    /\ pc = "find"
    /\ findCalls' = findCalls + 1
    /\ \E exists \in SUBSET PathsOf(platform) :
          LET path == findCookieDatabase(platform, exists)
          IN /\ cookieDbPath' = path
             /\ failures' = IF Truthy(path) THEN failures ELSE failures \cup {"locator"}
    /\ pc' = "key"
    /\ UNCHANGED <<platform, envCookie, encryptionKey, handle, cookies, pending,
                   selected, keyCalls, openCalls, queryCalls, result, outcome>>
    /\ UNCHANGED <<dvars, evars, cvars, hvars, lvars>>

\* extractBlacksmithCookie, lines 158-161: locate the store or return null.
FindCookieDatabase ==
    /\ pc = "find"
    /\ findCalls' = findCalls + 1
    /\ \E exists \in SUBSET PathsOf(platform) :
          LET path == findCookieDatabase(platform, exists)
          IN IF ~Truthy(path)
             THEN /\ logged' = logged \cup FindCookieDatabaseLog(platform, path)
                  /\ result' = Null
                  /\ outcome' = "returned"
                  /\ pc' = "done"
                  /\ failures' = failures \cup {"locator"}
                  /\ UNCHANGED cookieDbPath
             ELSE /\ logged' = logged \cup FindCookieDatabaseLog(platform, path)
                  /\ cookieDbPath' = path
                  /\ pc' = "key"
                  /\ UNCHANGED <<result, outcome, failures>>
    /\ UNCHANGED <<platform, envCookie, encryptionKey, handle, cookies, pending,
                   selected, keyCalls, openCalls, queryCalls>>
    /\ UNCHANGED <<dvars, evars, cvars, hvars>>

\* Lines 163-170 without the test of the platform: the key is asked for
\* everywhere.
GetEncryptionKeyAnyPlatform ==
    /\ pc = "key"
    /\ keyCalls' = keyCalls + 1
    /\ \E kc \in KeychainOutcomes :
          /\ encryptionKey' = getMacOSEncryptionKey(kc)
          /\ failures' = IF kc.throws THEN failures \cup {"key"} ELSE failures
    /\ pc' = "open"
    /\ UNCHANGED <<platform, envCookie, cookieDbPath, handle, cookies, pending,
                   selected, outcome, result, findCalls, openCalls, queryCalls>>
    /\ UNCHANGED <<dvars, evars, cvars, hvars, lvars>>

\* Lines 163-170 with a failed key retrieval ending the attempt.
GetEncryptionKeyFatal ==
    /\ pc = "key"
    /\ IF platform = "darwin"
       THEN /\ keyCalls' = keyCalls + 1
            /\ \E kc \in KeychainOutcomes :
                  IF kc.throws
                  THEN /\ failures' = failures \cup {"key"}
                       /\ pc' = "catch"
                       /\ UNCHANGED encryptionKey
                  ELSE /\ encryptionKey' = getMacOSEncryptionKey(kc)
                       /\ pc' = "open"
                       /\ UNCHANGED failures
       ELSE pc' = "open" /\ UNCHANGED <<keyCalls, encryptionKey, failures>>
    /\ UNCHANGED <<platform, envCookie, cookieDbPath, handle, cookies, pending,
                   selected, outcome, result, findCalls, openCalls, queryCalls>>
    /\ UNCHANGED <<dvars, evars, cvars, hvars, lvars>>

\* Lines 163-170: the key is asked for on darwin only; without a key the
\* attempt goes on.
GetEncryptionKey ==
    /\ pc = "key"
    /\ IF platform = "darwin"
       THEN /\ keyCalls' = keyCalls + 1
            /\ \E kc \in KeychainOutcomes :
                  /\ encryptionKey' = getMacOSEncryptionKey(kc)
                  /\ failures' = IF kc.throws THEN failures \cup {"key"} ELSE failures
                  /\ logged' = logged \cup KeyProviderLog(kc)
       ELSE UNCHANGED <<keyCalls, encryptionKey, failures, logged>>
    /\ pc' = "open"
    /\ UNCHANGED <<platform, envCookie, cookieDbPath, handle, cookies, pending,
                   selected, outcome, result, findCalls, openCalls, queryCalls>>
    /\ UNCHANGED <<dvars, evars, cvars, hvars>>

\* Line 173: new Database(path, {readonly, fileMustExist}) opens or throws.
OpenDatabase ==
    /\ pc = "open"
    /\ openCalls' = openCalls + 1
    /\ \E opens \in BOOLEAN :
          IF opens
          THEN handle' = "open" /\ pc' = "prepare" /\ UNCHANGED failures
          ELSE pc' = "catch" /\ failures' = failures \cup {"open"} /\ UNCHANGED handle
    /\ UNCHANGED <<platform, envCookie, cookieDbPath, encryptionKey, cookies, pending,
                   selected, outcome, result, findCalls, keyCalls, queryCalls>>
    /\ UNCHANGED <<dvars, evars, cvars, hvars, lvars>>

\* Lines 177-182: db.prepare compiles the SELECT or throws.
Prepare ==
    /\ pc = "prepare"
    /\ queryCalls' = queryCalls + 1
    /\ \E compiles \in BOOLEAN :
          IF compiles
          THEN pc' = "all" /\ UNCHANGED <<pending, failures>>
          ELSE pc' = "finally" /\ pending' = Throw /\ failures' = failures \cup {"prepare"}
    /\ UNCHANGED <<platform, envCookie, cookieDbPath, encryptionKey, handle, cookies,
                   selected, outcome, result, findCalls, keyCalls, openCalls>>
    /\ UNCHANGED <<dvars, evars, cvars, hvars, lvars>>

\* Line 184: stmt.all returns the rows of the domain, or throws.
StmtAll ==
    /\ pc = "all"
    /\ \/ \E rows \in RowSeqs :
             /\ cookies' = rows
             /\ pc' = "select"
             /\ UNCHANGED <<pending, failures>>
       \/ /\ pc' = "finally"
          /\ pending' = Throw
          /\ failures' = failures \cup {"query"}
          /\ UNCHANGED cookies
    /\ UNCHANGED <<platform, envCookie, cookieDbPath, encryptionKey, handle,
                   selected, outcome, result, findCalls, keyCalls, openCalls,
                   queryCalls>>
    /\ UNCHANGED <<dvars, evars, cvars, hvars, lvars>>

\* Lines 186-208 with the exception of a candidate's decryption not caught at
\* lines 121-124: it leaves the loops and the try block.
SelectCookieDecryptFatal ==
    /\ pc = "select"
    /\ IF \E i \in Examined(cookies, encryptionKey) :
             DecryptThrows(cookies[i], encryptionKey)
       THEN /\ pending' = Throw
            /\ failures' = failures \cup {"decrypt"}
            /\ UNCHANGED selected
       ELSE LET i == SelectIndex(cookies, encryptionKey)
            IN /\ selected' = i
               /\ pending' = Return(IF i = 0 THEN Null
                                    ELSE getCookieValue(cookies[i], encryptionKey))
               /\ UNCHANGED failures
    /\ pc' = "finally"
    /\ UNCHANGED <<platform, envCookie, cookieDbPath, encryptionKey, handle, cookies,
                   outcome, result, findCalls, keyCalls, openCalls, queryCalls>>
    /\ UNCHANGED <<dvars, evars, cvars, hvars, lvars>>

\* Lines 186-208: the Selection Policy; the value found, or null, is returned
\* through the finally block.
SelectCookie ==
    /\ pc = "select"
    /\ LET i == SelectIndex(cookies, encryptionKey)
       IN /\ selected' = i
          /\ pending' = Return(IF i = 0 THEN Null
                               ELSE getCookieValue(cookies[i], encryptionKey))
    /\ failures' =
          IF \E i \in Examined(cookies, encryptionKey) :
                DecryptThrows(cookies[i], encryptionKey)
          THEN failures \cup {"decrypt"}
          ELSE failures
    /\ pc' = "finally"
    /\ UNCHANGED <<platform, envCookie, cookieDbPath, encryptionKey, handle, cookies,
                   outcome, result, findCalls, keyCalls, openCalls, queryCalls>>
    /\ logged' = logged \cup SelectCookieLog(cookies, encryptionKey)
    /\ UNCHANGED <<dvars, evars, cvars, hvars>>

\* Lines 209-211 with the finally block left out: the handle is not released.
FinallyNoClose ==
    /\ pc = "finally"
    /\ IF pending.kind = "throw"
       THEN /\ pc' = "catch"
            /\ UNCHANGED <<result, outcome>>
       ELSE /\ result' = pending.value
            /\ outcome' = "returned"
            /\ pc' = "done"
    /\ UNCHANGED <<platform, envCookie, cookieDbPath, encryptionKey, cookies, pending,
                   selected, findCalls, keyCalls, openCalls, queryCalls, failures,
                   handle>>
    /\ UNCHANGED <<dvars, evars, cvars, hvars, lvars>>

\* Lines 209-211: db.close(), then the completion of the try block goes on.
Finally ==
    /\ pc = "finally"
    /\ handle' = "closed"
    /\ IF pending.kind = "throw"
       THEN /\ pc' = "catch"
            /\ UNCHANGED <<result, outcome>>
       ELSE /\ result' = pending.value
            /\ outcome' = "returned"
            /\ pc' = "done"
    /\ UNCHANGED <<platform, envCookie, cookieDbPath, encryptionKey, cookies, pending,
                   selected, findCalls, keyCalls, openCalls, queryCalls, failures>>
    /\ UNCHANGED <<dvars, evars, cvars, hvars, lvars>>

\* Lines 212-215 with the exception thrown again instead of swallowed.
CatchRethrows ==
    /\ pc = "catch"
    /\ outcome' = "threw"
    /\ pc' = "done"
    /\ UNCHANGED <<platform, envCookie, cookieDbPath, encryptionKey, handle, cookies,
                   pending, selected, findCalls, keyCalls, openCalls, queryCalls,
                   failures, result>>
    /\ UNCHANGED <<dvars, evars, cvars, hvars, lvars>>

\* Lines 212-215: whatever was thrown inside the pipeline becomes null.
Catch ==
    /\ pc = "catch"
    /\ result' = Null
    /\ outcome' = "returned"
    /\ pc' = "done"
    /\ UNCHANGED <<platform, envCookie, cookieDbPath, encryptionKey, handle, cookies,
                   pending, selected, findCalls, keyCalls, openCalls, queryCalls,
                   failures>>
    /\ logged' = logged \cup CatchLog
    /\ UNCHANGED <<dvars, evars, cvars, hvars>>

\* The call is over: its locals are gone, the caller may call again.
NextCall ==
    /\ pc = "done"
    /\ pc' = "idle"
    /\ cookieDbPath' = Null
    /\ encryptionKey' = NoKey
    /\ handle' = IF handle = "closed" THEN "none" ELSE handle
    /\ cookies' = <<>>
    /\ pending' = NoCompletion
    /\ selected' = 0
    /\ outcome' = "none"
    /\ result' = Null
    /\ findCalls' = 0
    /\ keyCalls' = 0
    /\ openCalls' = 0
    /\ queryCalls' = 0
    /\ failures' = {}
    /\ UNCHANGED <<platform, envCookie>>
    /\ logged' = {}
    /\ UNCHANGED <<dvars, evars, cvars, hvars>>

Next ==
    \/ GetSessionCookie
    \/ FindCookieDatabase
    \/ GetEncryptionKey
    \/ OpenDatabase
    \/ Prepare
    \/ StmtAll
    \/ SelectCookie
    \/ Finally
    \/ Catch
    \/ NextCall

\* Repeated calls of getSessionCookie, on any platform, with any override,
\* file system, keychain answer, database failure and query result.
Spec == Init /\ [][Next]_vars

\* ------------------------------------------------------------------------
\* The Decryption Engine on its own: a value is encrypted the way the browser
\* stores it, then handed to decryptCookieValue.
\* ------------------------------------------------------------------------

\* Largest length of the variable part of a plaintext.
MaxLen == 3

\* Bytes of the variable part: a control byte (a legal padding length), the
\* letters of 'eyJ', and a byte above 127.
BodyBytes == {1, 74, 101, 121, 128}

Bodies == UNION {[1..n -> BodyBytes] : n \in 0..MaxLen}

\* What precedes the variable part: nothing; 5, 32 or 40 bytes, the first of
\* them f and the others g; or the marker itself followed by two letters.
PrefixFills == {<<1, 1>>, <<127, 127>>, <<128, 128>>, <<128, 1>>, <<65, 65>>,
                <<195, 195>>}
PrefixLens == {5, MacSize, MacSize + 8}
Prefixes ==
    {<<>>, EYJ \o <<65, 65>>}
    \cup {<<fg[1]>> \o Rep(fg[2], n - 1) : fg \in PrefixFills, n \in PrefixLens}

Plaintexts == {p \o b : p \in Prefixes, b \in Bodies}

EngineKeys == {Pbkdf2(SecretA), Pbkdf2(SecretB)}

DInit ==
    /\ dPhase = "plain"
    /\ dPlain \in Plaintexts
    /\ dKey \in EngineKeys
    /\ dStored = <<>>
    /\ dDecKey = <<>>
    /\ dOut = Null

\* The browser writes the cookie to the store.
Encrypt ==
    /\ dPhase = "plain"
    /\ dStored' = StoreEncrypt(dPlain, dKey)
    /\ dPhase' = "stored"
    /\ UNCHANGED <<dPlain, dKey, dDecKey, dOut>>
    /\ UNCHANGED <<rvars, evars, cvars, hvars, lvars>>

\* decryptCookieValue(encrypted_value, key), with the browser's key or another.
Decrypt ==
    /\ dPhase = "stored"
    /\ \E k \in EngineKeys :
          /\ dDecKey' = k
          /\ dOut' = decryptCookieValue(dStored, k)
    /\ dPhase' = "done"
    /\ UNCHANGED <<dPlain, dKey, dStored>>
    /\ UNCHANGED <<rvars, evars, cvars, hvars, lvars>>

DNext == Encrypt \/ Decrypt

EngineInit ==
    /\ platform = "darwin" /\ envCookie = Null
    /\ RIdle /\ DInit /\ EIdle /\ CIdle /\ HIdle /\ LIdle

\* decryptCookieValue applied to every stored value of the bounded inputs.
SpecEngine == EngineInit /\ [][DNext]_vars

\* ------------------------------------------------------------------------
\* The process: the environment kept as state, and createClientFromEnv
\* (src/src/client.ts) as the caller of the resolver
\* ------------------------------------------------------------------------

\* 'blacksmith.sh'
BLACKSMITH_DOMAIN == <<98, 108, 97, 99, 107, 115, 109, 105, 116, 104, 46, 115, 104>>

\* Columns named by the SELECT of extractBlacksmithCookie.
SelectColumns ==
    {"name", "value", "encrypted_value", "host_key", "path", "expires_utc",
     "is_httponly", "is_secure"}

\* The cookies table as the browser made it, and as a version of the browser
\* without the is_secure column made it.
Schemas == {SelectColumns, SelectColumns \ {"is_secure"}}

\* db.prepare(...) compiles when the table has every column the SELECT names.
Compiles(columns) == SelectColumns \subseteq columns

\* SQLite's LIKE compares ASCII letters without regard to case.
Lower(c) == IF c \in 65..90 THEN c + 32 ELSE c

\* text LIKE '%' || needle || '%' (needle without wildcard characters).
Like(text, needle) ==
    \E k \in 0..(Len(text) - Len(needle)) :
        \A j \in 1..Len(needle) : Lower(text[k + j]) = Lower(needle[j])

\* stmt.all(`%${BLACKSMITH_DOMAIN}%`): the rows WHERE host_key LIKE ?, in
\* table order.
DomainQuery(table) ==
    SelectSeq(table, LAMBDA r : Like(r.host_key, BLACKSMITH_DOMAIN))

\* new Database(path, options) of better-sqlite3 on a file system: ok tells
\* whether a handle was obtained, files is the file system afterwards.  A
\* missing file is created unless the options forbid it.
DatabaseOpen(path, fs, options) ==
    IF path \in fs THEN [ok |-> TRUE, files |-> fs]
    ELSE IF options.readonly \/ options.fileMustExist
    THEN [ok |-> FALSE, files |-> fs]
    ELSE [ok |-> TRUE, files |-> fs \cup {path}]

\* new Database(path) with the options left out.
OpenOptionsDefault == [readonly |-> FALSE, fileMustExist |-> FALSE]

\* Line 173: { readonly: true, fileMustExist: true }.
OpenOptions == [readonly |-> TRUE, fileMustExist |-> TRUE]

\* What execSync returns to getMacOSEncryptionKey when it returns.
ExecSync(kc) ==
    [throws |-> kc.access = "denied",
     stdout |-> IF kc.access = "granted" THEN kc.secret \o <<10>> ELSE <<>>]

ConfigurationError(message) ==
    [kind |-> "error", name |-> "ConfigurationError",
     code |-> "CONFIGURATION_ERROR", message |-> message]

NoSessionMessage ==
    "Could not find Blacksmith session. Either:\n1. Log into app.blacksmith.sh in Chrome, or\n2. Set BLACKSMITH_SESSION_COOKIE environment variable"

\* new BlacksmithClient({ sessionCookie, org }); the org is not modelled.
BlacksmithClient(cookie) == [kind |-> "client", sessionCookie |-> cookie]

\* Largest number of rows in the cookies table.
MaxTableRows == 1

\* 'app.blacksmith.sh', 'blacksmith.sh.example.com', 'example.com'
HostApp == <<97, 112, 112, 46, 98, 108, 97, 99, 107, 115, 109, 105, 116, 104, 46, 115, 104>>
HostLookalike == <<98, 108, 97, 99, 107, 115, 109, 105, 116, 104, 46, 115, 104, 46, 101, 120, 97, 109, 112, 108, 101, 46, 99, 111, 109>>
HostOther == <<101, 120, 97, 109, 112, 108, 101, 46, 99, 111, 109>>

\* Rows of the cookies table: on the application's host a plain value "P",
\* the value "T" encrypted by the browser, and the value "L" in
\* encrypted_value without a version marker; a plain value "E" on a host that
\* contains the domain without ending with it; a plain value "X" elsewhere;
\* on the application's host, a plain value "Q" beside an encrypted_value
\* that the browser's key does not decrypt, and the encryption of the empty
\* string.
StoreRows ==
    {[name |-> "session", value |-> <<80>>, encrypted_value |-> <<>>,
      host_key |-> HostApp],
     [name |-> "session", value |-> <<81>>,
      encrypted_value |-> StoreEncrypt(<<84>>, Pbkdf2(SecretB)),
      host_key |-> HostApp],
     [name |-> "session", value |-> <<>>,
      encrypted_value |-> StoreEncrypt(<<84>>, BrowserKey), host_key |-> HostApp],
     [name |-> "session", value |-> <<>>, encrypted_value |-> <<76>>,
      host_key |-> HostApp],
     [name |-> "session", value |-> <<>>,
      encrypted_value |-> StoreEncrypt(<<>>, BrowserKey), host_key |-> HostApp],
     [name |-> "session", value |-> <<69>>, encrypted_value |-> <<>>,
      host_key |-> HostLookalike],
     [name |-> "session", value |-> <<88>>, encrypted_value |-> <<>>,
      host_key |-> HostOther]}

Tables == UNION {[1..n -> StoreRows] : n \in 0..MaxTableRows}

KeychainStates ==
    {Keychain("denied", <<>>), Keychain("granted", SecretA),
     Keychain("prompt", SecretA)}

\* BLACKSMITH_SESSION_COOKIE: unset, set to the empty string, or set to "O".
ProcessOverrides == {Null, Str(<<>>), Str(<<79>>)}

\* How a resolver call ended, as far as the caller could wish to tell:
\* with a token; without one because no store was located; without one
\* although the store was read without any failure; without one otherwise.
OutcomeClass ==
    IF Truthy(result) THEN "token"
    ELSE IF "locator" \in failures THEN "unavailable"
    ELSE IF failures = {} /\ queryCalls = 1 /\ pending.kind = "return" THEN "notfound"
    ELSE "failed"

ProcessInit ==
    /\ platform \in Platforms
    /\ envCookie \in ProcessOverrides
    /\ RIdle
    /\ DIdle
    /\ files \in SUBSET PathsOf(platform)
    /\ keychain \in KeychainStates
    /\ store \in Tables
    /\ schema \in Schemas
    /\ CIdle
    /\ HIdle
    /\ LIdle

\* The locals of a resolver call.
locals == <<cookieDbPath, encryptionKey, handle, cookies, pending, selected,
            outcome, result, findCalls, keyCalls, openCalls, queryCalls, failures>>

\* Between two calls of createClientFromEnv, and while it awaits the import
\* of utils/cookies.js, the rest of the program may set or clear the override.
SetOverride ==
    /\ cpc = "idle" \/ (cpc = "awaiting" /\ pc = "idle")
    /\ \E v \in ProcessOverrides \ {envCookie} : envCookie' = v
    /\ UNCHANGED <<platform, pc, locals>>
    /\ UNCHANGED <<dvars, evars, cvars, hvars, lvars>>

\* Between two calls the browser rewrites its cookies table.
BrowserWrites ==
    /\ cpc = "idle"
    /\ \E t \in Tables \ {store} : store' = t
    /\ UNCHANGED <<files, keychain, schema>>
    /\ UNCHANGED <<rvars, dvars, cvars, hvars, lvars>>

\* Between two calls another version of the browser migrates the table.
BrowserMigrates ==
    /\ cpc = "idle"
    /\ \E c \in Schemas \ {schema} : schema' = c
    /\ UNCHANGED <<files, keychain, store>>
    /\ UNCHANGED <<rvars, dvars, cvars, hvars, lvars>>

\* Between two calls a profile is created or removed.
FileSystemChanges ==
    /\ cpc = "idle"
    /\ \E p \in PathsOf(platform) :
          files' = IF p \in files THEN files \ {p} ELSE files \cup {p}
    /\ UNCHANGED <<keychain, store, schema>>
    /\ UNCHANGED <<rvars, dvars, cvars, hvars, lvars>>

\* Between two calls the user changes the access to the keychain item.
KeychainChanges ==
    /\ cpc = "idle"
    /\ \E k \in KeychainStates \ {keychain} : keychain' = k
    /\ UNCHANGED <<files, store, schema>>
    /\ UNCHANGED <<rvars, dvars, cvars, hvars, lvars>>

\* The located file is removed after existsSync answered and before the
\* database is opened.
FileVanishes ==
    /\ cpc = "awaiting"
    /\ pc \in {"key", "open"}
    /\ cookieDbPath.chars \in files
    /\ files' = files \ {cookieDbPath.chars}
    /\ raced' = TRUE
    /\ UNCHANGED <<keychain, store, schema>>
    /\ UNCHANGED <<cpc, sessionCookie, client, thrown, prev>>
    /\ UNCHANGED <<rvars, dvars, hvars, lvars>>

\* createClientFromEnv, lines 343-349: the override is read; without one the
\* resolver is imported and called.
CreateClientFromEnv ==
    /\ cpc = "idle"
    /\ pc = "idle"
    /\ sessionCookie' = envCookie
    /\ cpc' = IF Truthy(envCookie) THEN "construct" ELSE "awaiting"
    /\ UNCHANGED <<client, thrown, prev, raced>>
    /\ UNCHANGED <<rvars, dvars, evars, hvars, lvars>>

ProcGetSessionCookie == cpc = "awaiting" /\ GetSessionCookie

\* findCookieDatabase asks the file system.
ProcFindCookieDatabase ==
    /\ cpc = "awaiting"
    /\ FindCookieDatabase
    /\ LET path == findCookieDatabase(platform, files)
       IN IF Truthy(path) THEN cookieDbPath' = path ELSE pc' = "done"

\* execSync returns what the keychain answers.
ProcGetEncryptionKey ==
    /\ cpc = "awaiting"
    /\ platform = "darwin" => keychain.access # "prompt"
    /\ GetEncryptionKey
    /\ platform = "darwin" =>
          /\ encryptionKey' = getMacOSEncryptionKey(ExecSync(keychain))
          /\ ("key" \in failures') = ExecSync(keychain).throws

\* Lines 57-60: execSync is given no timeout; while the OS waits for an answer
\* to its access dialog the call does not return.
ExecSyncBlocks ==
    /\ cpc = "awaiting"
    /\ pc = "key"
    /\ platform = "darwin"
    /\ keychain.access = "prompt"
    /\ keyCalls' = keyCalls + 1
    /\ pc' = "execSync"
    /\ UNCHANGED <<platform, envCookie, cookieDbPath, encryptionKey, handle, cookies,
                   pending, selected, outcome, result, findCalls, openCalls,
                   queryCalls, failures>>
    /\ UNCHANGED <<dvars, evars, cvars, hvars, lvars>>

\* Line 173 on the file system: the located file is opened, or the
\* constructor throws.
ProcOpenDatabase ==
    /\ cpc = "awaiting"
    /\ pc = "open"
    /\ openCalls' = openCalls + 1
    /\ LET opened == DatabaseOpen(cookieDbPath.chars, files, OpenOptions)
       IN /\ files' = opened.files
          /\ IF opened.ok
             THEN handle' = "open" /\ pc' = "prepare" /\ UNCHANGED failures
             ELSE pc' = "catch" /\ failures' = failures \cup {"open"}
                  /\ UNCHANGED handle
    /\ UNCHANGED <<platform, envCookie, cookieDbPath, encryptionKey, cookies, pending,
                   selected, outcome, result, findCalls, keyCalls, queryCalls>>
    /\ UNCHANGED <<keychain, store, schema>>
    /\ UNCHANGED <<dvars, cvars, hvars, lvars>>

\* db.prepare on the table as it is.
ProcPrepare ==
    /\ cpc = "awaiting"
    /\ Prepare
    /\ (pc' = "all") <=> Compiles(schema)

\* Line 184 on the table as it is: the rows of the domain.
ProcStmtAll ==
    /\ cpc = "awaiting"
    /\ pc = "all"
    /\ cookies' = DomainQuery(store)
    /\ pc' = "select"
    /\ UNCHANGED <<platform, envCookie, cookieDbPath, encryptionKey, handle, pending,
                   selected, outcome, result, findCalls, keyCalls, openCalls,
                   queryCalls, failures>>
    /\ UNCHANGED <<dvars, evars, cvars, hvars, lvars>>

ProcSelectCookie == cpc = "awaiting" /\ SelectCookie

ProcFinally == cpc = "awaiting" /\ Finally

ProcCatch == cpc = "awaiting" /\ Catch

\* createClientFromEnv, line 348: the awaited call has returned (or thrown).
AwaitGetSessionCookie ==
    /\ cpc = "awaiting"
    /\ pc = "done"
    /\ IF outcome = "threw"
       THEN /\ thrown' = [kind |-> "error", name |-> "Error"]
            /\ cpc' = "finished"
            /\ UNCHANGED sessionCookie
       ELSE /\ sessionCookie' = result
            /\ cpc' = "construct"
            /\ UNCHANGED thrown
    /\ prev' = [kind |-> "call", class |-> OutcomeClass, result |-> result]
    /\ raced' = FALSE
    /\ UNCHANGED client
    /\ UNCHANGED <<rvars, dvars, evars, hvars, lvars>>

\* The locals of the resolver call are gone once it has returned.
ProcNextCall == cpc \in {"construct", "finished"} /\ NextCall

\* createClientFromEnv, lines 351-362, with a client built from whatever
\* sessionCookie holds.
ConstructClientUnchecked ==
    /\ cpc = "construct"
    /\ pc = "idle"
    /\ client' = BlacksmithClient(sessionCookie)
    /\ cpc' = "finished"
    /\ UNCHANGED <<sessionCookie, thrown, prev, raced>>
    /\ UNCHANGED <<rvars, dvars, evars, hvars, lvars>>

\* createClientFromEnv, lines 351-362: without a session cookie a
\* ConfigurationError is thrown; otherwise the client is constructed.
ConstructClient ==
    /\ cpc = "construct"
    /\ pc = "idle"
    /\ IF ~Truthy(sessionCookie)
       THEN /\ thrown' = ConfigurationError(NoSessionMessage)
            /\ UNCHANGED client
       ELSE /\ client' = BlacksmithClient(sessionCookie)
            /\ UNCHANGED thrown
    /\ cpc' = "finished"
    /\ UNCHANGED <<sessionCookie, prev, raced>>
    /\ UNCHANGED <<rvars, dvars, evars, hvars, lvars>>

\* The caller has its client or its error; createClientFromEnv may be called
\* again.
CallerDone ==
    /\ cpc = "finished"
    /\ pc = "idle"
    /\ cpc' = "idle"
    /\ sessionCookie' = Null
    /\ client' = NoClient
    /\ thrown' = NoError
    /\ UNCHANGED <<prev, raced>>
    /\ UNCHANGED <<rvars, dvars, evars, hvars, lvars>>

\* The steps of a resolver call.
ResolverStep ==
    \/ ProcGetSessionCookie
    \/ ProcFindCookieDatabase
    \/ ProcGetEncryptionKey
    \/ ExecSyncBlocks
    \/ ProcOpenDatabase
    \/ ProcPrepare
    \/ ProcStmtAll
    \/ ProcSelectCookie
    \/ ProcFinally
    \/ ProcCatch

ProcessNext ==
    \/ SetOverride
    \/ BrowserWrites
    \/ BrowserMigrates
    \/ FileSystemChanges
    \/ KeychainChanges
    \/ FileVanishes
    \/ CreateClientFromEnv
    \/ ProcGetSessionCookie
    \/ ProcFindCookieDatabase
    \/ ProcGetEncryptionKey
    \/ ExecSyncBlocks
    \/ ProcOpenDatabase
    \/ ProcPrepare
    \/ ProcStmtAll
    \/ ProcSelectCookie
    \/ ProcFinally
    \/ ProcCatch
    \/ AwaitGetSessionCookie
    \/ ProcNextCall
    \/ ConstructClient
    \/ CallerDone

\* Repeated calls of createClientFromEnv in one process, in an environment
\* that changes between the calls.
SpecProcess == ProcessInit /\ [][ProcessNext]_vars

\* ------------------------------------------------------------------------
\* Properties
\* ------------------------------------------------------------------------

\* The value getCookieValue yields for row i of the query result.
ValueOf(i) == getCookieValue(cookies[i], encryptionKey)
Usable(i) == Truthy(ValueOf(i))
KnownName(n) == \E k \in 1..Len(COOKIE_NAMES) : COOKIE_NAMES[k] = n
Priority(n) == CHOOSE k \in 1..Len(COOKIE_NAMES) : COOKIE_NAMES[k] = n
RowIds == 1..Len(cookies)
KnownUsable == {i \in RowIds : KnownName(cookies[i].name) /\ Usable(i)}
AllUsable == {i \in RowIds : Usable(i)}

\* The call has returned what the Selection Policy chose.
PolicyReturned == pc = "done" /\ pending.kind = "return"

\* C1: with an override supplied (set and non-empty), the call returns exactly
\* the override, and the Store Locator, the Key Provider, the database open
\* and the query are never invoked during the call.
C1_OverrideShortCircuits ==
    Truthy(envCookie) =>
        /\ findCalls = 0 /\ keyCalls = 0 /\ openCalls = 0 /\ queryCalls = 0
        /\ handle = "none"
        /\ pc = "done" => (outcome = "returned" /\ result = envCookie)

C1_Witness == pc = "done" /\ Truthy(envCookie) /\ result = envCookie

\* C2 as stated: after any failure inside the pipeline (locator, key
\* retrieval, open, prepare/query, a candidate's decryption) the call returns
\* an absence value.
C2_AnyFailureYieldsAbsence ==
    (pc = "done" /\ failures # {}) => (outcome = "returned" /\ result = Null)

\* C2 amended: no failure inside the pipeline is ever propagated; a failure of
\* the locator, the open, the prepare or the query makes the call return
\* null; after a failed key retrieval or a failed decryption of a candidate
\* the call returns null or the value of a remaining usable record.
C2_FailuresNeverPropagate ==
    /\ outcome # "threw"
    /\ pc = "done" => outcome = "returned"
    /\ (pc = "done" /\ failures \cap {"locator", "open", "prepare", "query"} # {})
          => result = Null
    /\ (pc = "done" /\ failures # {} /\ result # Null)
          => /\ failures \subseteq {"key", "decrypt"}
             /\ selected \in RowIds
             /\ result = ValueOf(selected)
             /\ Truthy(result)

C2_Witness ==
    pc = "done" /\ outcome = "returned" /\ result = Null /\ "query" \in failures

\* C3 as stated: when some record with a name of the priority list is usable,
\* the token returned is the value of a usable record whose name has the
\* highest priority among the names that have a usable record.
C3_HighestPriorityUsableName ==
    (PolicyReturned /\ KnownUsable # {}) =>
        \E i \in KnownUsable :
            /\ result = ValueOf(i)
            /\ \A j \in KnownUsable :
                  Priority(cookies[i].name) <= Priority(cookies[j].name)

\* C4 as stated: a record with a name outside the priority list is selected
\* only if no record with a known name is usable; then the first usable
\* record in row order is returned; with no usable record the result is null.
C4_FallbackOnlyWithoutKnownUsable ==
    PolicyReturned =>
        /\ (selected \in RowIds /\ ~KnownName(cookies[selected].name))
              => KnownUsable = {}
        /\ (KnownUsable = {} /\ AllUsable # {})
              => /\ selected \in AllUsable
                 /\ \A j \in AllUsable : selected <= j
                 /\ result = ValueOf(selected)
        /\ AllUsable = {} => result = Null

\* ---- the Decryption Engine ----

Printable(b) == b >= 32 /\ b <= 126

\* What the cipher yields for the stored value, before any padding is removed.
RawDecrypted == CbcDecrypt(SliceFrom(dStored, 3), dDecKey)

\* The buffer payload recovery works on (line 105), when decryption succeeded.
RecoveryInput == StripPadding(DecipherFinal(SliceFrom(dStored, 3), dDecKey).buf)

MarkerOffsets(d) == {i \in 0..Len(d) : OccursAt(d, EYJ, i)}
FirstMarker(d) == CHOOSE i \in MarkerOffsets(d) : \A j \in MarkerOffsets(d) : i <= j

\* C5 as stated: a decrypted buffer whose last byte is outside 1..16 is
\* discarded; when the last byte n is in 1..16, exactly n trailing bytes are
\* removed (payload recovery then works on the buffer without them).
C5_PaddingValidatedAndStripped ==
    dPhase = "done" =>
        LET raw == RawDecrypted
            n == raw[Len(raw)]
        IN /\ ~(n >= 1 /\ n <= 16) => dOut = Null
           /\ (n >= 1 /\ n <= 16 /\ dOut # Null)
                 => dOut = Str(PayloadRecovery(DropLast(raw, n)))

\* C6 as stated: a decrypted value M + T, with M 32 non-printable bytes of any
\* kind, T a non-empty printable token and no marker, is recovered as T.
C6_MetadataSkipped ==
    (/\ dPhase = "done"
     /\ dDecKey = dKey
     /\ Len(dPlain) > MacSize
     /\ \A i \in 1..MacSize : ~Printable(dPlain[i])
     /\ \A i \in (MacSize + 1)..Len(dPlain) : Printable(dPlain[i])
     /\ MarkerOffsets(dPlain) = {})
        => dOut = Str(SliceFrom(dPlain, MacSize))

\* C7: when the decrypted buffer holds the marker 'eyJ' at some non-zero
\* offset, whatever precedes it, payload recovery returns the text from the
\* first occurrence of the marker to the end.
C7_MarkerSearch ==
    (/\ dPhase = "done"
     /\ dOut # Null
     /\ \E i \in MarkerOffsets(RecoveryInput) : i > 0)
        => dOut = Str(Utf8(SliceFrom(RecoveryInput, FirstMarker(RecoveryInput))))

C7_Witness ==
    /\ dPhase = "done"
    /\ dOut # Null
    /\ Len(RecoveryInput) > MacSize
    /\ RecoveryInput[1] > 127
    /\ MarkerOffsets(RecoveryInput) # {}
    /\ FirstMarker(RecoveryInput) > MacSize
    /\ dOut = Str(EYJ)

\* C8 as stated: a value encrypted in the store format and decrypted with the
\* same key comes back as the original plaintext.
C8_RoundTrip ==
    (dPhase = "done" /\ dDecKey = dKey) => dOut = Str(Utf8(dPlain))

\* ---- the resolver again ----

\* C9: when the Store Locator finds no path, the call returns null without
\* throwing, and neither the Key Provider nor a database open is invoked.
C9_NoStoreIsUnavailable ==
    /\ cookieDbPath = Null =>
          (keyCalls = 0 /\ openCalls = 0 /\ queryCalls = 0 /\ handle = "none")
    /\ (pc = "done" /\ "locator" \in failures) =>
          (outcome = "returned" /\ result = Null)

C9_Witness ==
    /\ pc = "done" /\ "locator" \in failures /\ findCalls = 1
    /\ platform \in DOMAIN CHROME_COOKIE_PATHS
    /\ outcome = "returned" /\ result = Null

\* C10: when the store opens and the query returns no row, the call returns
\* null without throwing, and the handle is closed by the time it returns.
C10_ZeroRowsIsNotFound ==
    /\ (PolicyReturned /\ Len(cookies) = 0) =>
          (outcome = "returned" /\ result = Null /\ handle = "closed")
    /\ outcome = "returned" => handle # "open"

C10_Witness ==
    PolicyReturned /\ openCalls = 1 /\ Len(cookies) = 0 /\ handle = "closed"

\* C11: the caller can tell Unavailable from NotFound: of two resolver calls
\* of one process, one ending because no store was located (missing store,
\* unsupported platform) and one ending after the store was read without
\* failure and held no usable record, the values returned differ.
C11_OutcomesDistinguishable ==
    (/\ cpc = "awaiting"
     /\ pc = "done"
     /\ prev.kind = "call"
     /\ {prev.class, OutcomeClass} = {"unavailable", "notfound"})
        => prev.result # result

\* C12: once the database was opened, the handle is closed on every exit path
\* (a token found, zero rows, no usable record, an exception in prepare, in
\* the query or in a decryption) before the call returns; a handle is open
\* only between the open and the finally block, never after a return nor
\* between two calls.
C12_HandleReleased ==
    /\ handle = "open" => pc \in {"prepare", "all", "select", "finally"}
    /\ pc \in {"idle", "done"} => handle # "open"
    /\ (pc \in {"catch", "done"} /\ openCalls = 1 /\ "open" \notin failures)
          => handle = "closed"

C12_Witness ==
    /\ pc = "done" /\ outcome = "returned" /\ handle = "closed"
    /\ failures \cap {"prepare", "query", "decrypt"} # {}

\* C13: no step of a resolver call, whatever the outcome of the call, changes
\* the file system (no database file is created or removed), the cookies
\* table, its columns or the keychain item; hence all of them are the same
\* before and after any sequence of resolver calls.
C13_StoresUnchanged ==
    [][ResolverStep => UNCHANGED <<files, keychain, store, schema>>]_vars

C13_Witness ==
    /\ cpc = "awaiting" /\ pc = "done"
    /\ keyCalls = 1 /\ openCalls = 1 /\ queryCalls = 1 /\ handle = "closed"

\* C14: when the keychain command throws, the Key Provider yields no key and
\* no error; the call goes on to open the database and, once it is open, to
\* query it; and if the rows hold a record with a non-empty plain value, the
\* call returns the plain value of such a record.
C14_KeyFailureNotFatal ==
    "key" \in failures =>
        /\ encryptionKey = NoKey
        /\ outcome # "threw"
        /\ pc \in {"catch", "done"} => openCalls = 1
        /\ (pc = "done" /\ "open" \notin failures) => queryCalls = 1
        /\ (PolicyReturned /\ \E i \in RowIds : Len(cookies[i].value) > 0)
              => \E i \in RowIds : /\ Len(cookies[i].value) > 0
                                   /\ result = Str(cookies[i].value)

C14_Witness ==
    /\ PolicyReturned /\ "key" \in failures /\ keyCalls = 1
    /\ \E i \in RowIds : Len(cookies[i].encrypted_value) > 0
    /\ result = Str(<<80>>)

\* A record in the legacy format: no plain value, and an encrypted_value that
\* does not begin with 'v10'.
LegacyFormat(cookie) ==
    /\ Len(cookie.value) = 0
    /\ Len(cookie.encrypted_value) > 0
    /\ ~OccursAt(cookie.encrypted_value, V10, 0)

\* C15: for every record of the query result in the legacy format,
\* getCookieValue yields the whole encrypted_value buffer as the value, with
\* or without an encryption key in this call.
C15_LegacyValueAsIs ==
    \A i \in RowIds :
        LegacyFormat(cookies[i]) => ValueOf(i) = Str(Utf8(cookies[i].encrypted_value))

EndsWith(text, suffix) ==
    /\ Len(text) >= Len(suffix)
    /\ SubSeq(text, Len(text) - Len(suffix) + 1, Len(text)) = suffix

\* C16: the record whose value a call returns has a host that ends with
\* 'blacksmith.sh'; a record whose host only contains the domain is never
\* selected.
C16_SelectedHostEndsWithDomain ==
    (pc = "done" /\ selected # 0) =>
        EndsWith(cookies[selected].host_key, BLACKSMITH_DOMAIN)

\* Columns the code reads from a row; the others named by the SELECT are
\* never used.
RequiredColumns == {"name", "value", "encrypted_value", "host_key"}

\* C17: when the cookies table lacks only columns the code never reads, and
\* it holds a record of the domain that is usable with the key of this call,
\* a call that reached the query returns a token.
C17_SchemaDriftTolerated ==
    (/\ pc = "done"
     /\ queryCalls = 1
     /\ RequiredColumns \subseteq schema
     /\ \E i \in 1..Len(DomainQuery(store)) :
           Truthy(getCookieValue(DomainQuery(store)[i], encryptionKey)))
        => Truthy(result)

\* What a resolver call returns in a given environment: the override, or the
\* value the selection finds in the rows of the domain with the key the
\* keychain gives, or null.
ResolveFrom(override, plat, fs, kc, table, columns) ==
    IF Truthy(override) THEN override
    ELSE IF ~Truthy(findCookieDatabase(plat, fs)) THEN Null
    ELSE IF ~Compiles(columns) THEN Null
    ELSE LET key == IF plat = "darwin" THEN getMacOSEncryptionKey(ExecSync(kc))
                    ELSE NoKey
             rows == DomainQuery(table)
             i == SelectIndex(rows, key)
         IN IF i = 0 THEN Null ELSE getCookieValue(rows[i], key)

\* C18: nothing of a resolver call is left when the next one starts (no key,
\* token, rows or handle), and what a call returns is determined by the
\* override, the platform, the file system, the keychain and the cookies
\* table as they are at that call, whatever the earlier calls of the process
\* found.
C18_CallsIndependent ==
    /\ pc = "idle" =>
          /\ cookieDbPath = Null /\ encryptionKey = NoKey /\ handle = "none"
          /\ cookies = <<>> /\ pending = NoCompletion /\ result = Null
    /\ (cpc = "awaiting" /\ pc = "done" /\ ~raced) =>
          result = ResolveFrom(envCookie, platform, files, keychain, store, schema)

\* A call returns something else than the token the call before it returned.
C18_Witness ==
    /\ cpc = "awaiting" /\ pc = "done" /\ ~raced
    /\ prev.kind = "call" /\ Truthy(prev.result)
    /\ result # prev.result
    /\ result = ResolveFrom(envCookie, platform, files, keychain, store, schema)

\* C19: a resolver call that has started and not yet returned can always take
\* a further step; in particular the key retrieval cannot leave the call
\* waiting for the keychain for ever.
C19_CallNeverBlocked ==
    (cpc = "awaiting" /\ pc \notin {"idle", "done"}) => ENABLED ResolverStep

\* C20: createClientFromEnv hands the value the resolver returned to the
\* check of line 351; when that value is not a token (null or empty) no client
\* is constructed and the ConfigurationError with the message telling to log
\* into Chrome or to set BLACKSMITH_SESSION_COOKIE is thrown; a client is
\* only ever constructed with a non-empty session cookie.
C20_NoClientWithoutToken ==
    /\ client # NoClient => Truthy(client.sessionCookie)
    /\ (cpc = "construct" /\ pc = "done") => sessionCookie = result
    /\ (cpc = "finished" /\ ~Truthy(sessionCookie)) =>
          (client = NoClient /\ thrown = ConfigurationError(NoSessionMessage))
    /\ (cpc = "finished" /\ Truthy(sessionCookie)) =>
          (client = BlacksmithClient(sessionCookie) /\ thrown = NoError)

C20_Witness ==
    /\ cpc = "finished"
    /\ prev.kind = "call" /\ prev.class \in {"unavailable", "notfound", "failed"}
    /\ sessionCookie = Null
    /\ client = NoClient
    /\ thrown = ConfigurationError(NoSessionMessage)

\* C24: a candidate whose decryption throws, or which yields no value, is
\* discarded alone: the selection goes on and the call returns through the
\* Selection Policy; when some record of the rows is usable the value of a
\* usable record is returned, and null only when none is.
C24_CandidateFailureAbsorbed ==
    (/\ pc \in {"finally", "catch", "done"}
     /\ openCalls = 1
     /\ failures \cap {"open", "prepare", "query"} = {}) =>
        LET usable == AllUsable
        IN ("decrypt" \in failures \/ usable # RowIds) =>
              /\ pending.kind = "return"
              /\ usable # {} => (selected \in usable /\ pending.value # Null)
              /\ selected # 0 => pending.value = ValueOf(selected)
              /\ usable = {} => (selected = 0 /\ pending.value = Null)
              /\ pc = "done" => (outcome = "returned" /\ result = pending.value)

\* The decryption of the first blacksmith_session record threw and a later
\* record gave the token.
C24_Witness ==
    /\ PolicyReturned /\ "decrypt" \in failures
    /\ DecryptThrows(cookies[1], encryptionKey)
    /\ selected > 1
    /\ Truthy(result)

\* C25: for every record of the query result with a non-empty plain value,
\* getCookieValue yields that value unchanged, whatever encrypted_value holds
\* and with or without a key; no decryption of such a record is attempted.
C25_PlainValueShortCircuits ==
    /\ \A i \in RowIds :
          Len(cookies[i].value) > 0 =>
              /\ ValueOf(i) = Str(cookies[i].value)
              /\ ~DecryptThrows(cookies[i], encryptionKey)
    /\ (pc = "done" /\ selected # 0 /\ Len(cookies[selected].value) > 0) =>
          (result = Str(cookies[selected].value) /\ "decrypt" \notin failures)

\* The record returned has a plain value and an encrypted_value, and the call
\* has a key.
C25_Witness ==
    /\ pc = "done" /\ selected # 0
    /\ Len(cookies[selected].value) > 0
    /\ Len(cookies[selected].encrypted_value) > 0
    /\ encryptionKey # NoKey
    /\ result = Str(cookies[selected].value)

\* C27: on a supported platform the store of the attempt is the first path of
\* the platform's list that exists on the file system; a later path is used
\* only when every earlier one is missing, and none when all are missing.
C27_FirstExistingPathUsed ==
    (/\ cpc = "awaiting" /\ findCalls = 1 /\ ~raced
     /\ platform \in DOMAIN CHROME_COOKIE_PATHS) =>
        LET paths == CHROME_COOKIE_PATHS[platform]
        IN /\ Truthy(cookieDbPath) =>
                 \E i \in 1..Len(paths) :
                    /\ cookieDbPath = Str(paths[i])
                    /\ paths[i] \in files
                    /\ \A j \in 1..(i - 1) : paths[j] \notin files
           /\ ~Truthy(cookieDbPath) =>
                 /\ \A i \in 1..Len(paths) : paths[i] \notin files
                 /\ pc = "done" /\ result = Null /\ openCalls = 0

\* Both profiles exist and the store opened is the default profile's.
C27_Witness ==
    /\ cpc = "awaiting" /\ ~raced /\ openCalls = 1
    /\ platform \in {"darwin", "linux"}
    /\ \A i \in 1..2 : CHROME_COOKIE_PATHS[platform][i] \in files
    /\ cookieDbPath = Str(CHROME_COOKIE_PATHS[platform][1])

\* C29: a token returned by getSessionCookie is a non-empty string: a call
\* returns either null or a string of at least one character, an empty
\* override is not returned, and a record whose plain value is empty or whose
\* decryption yields the empty string is never the record selected.
C29_TokenNonEmpty ==
    /\ (pc = "done" /\ outcome = "returned") =>
          (result = Null \/ (result.kind = "string" /\ Len(result.chars) > 0))
    /\ pending.kind = "return" =>
          (pending.value = Null \/ Truthy(pending.value))
    /\ (pc = "done" /\ envCookie # Null /\ ~Truthy(envCookie)) =>
          (findCalls = 1 /\ result # envCookie)
    /\ selected # 0 => Truthy(ValueOf(selected))

\* With an empty override the store is consulted; its record decrypts to the
\* empty string and the call returns null.
C29_Witness ==
    /\ pc = "done" /\ outcome = "returned"
    /\ envCookie = Str(<<>>)
    /\ encryptionKey # NoKey
    /\ Len(cookies) = 1 /\ ValueOf(1) = Str(<<>>)
    /\ result = Null

\* C30: off darwin the Key Provider is not invoked and the attempt has no
\* key; a record yields a value only through its plain value, a record with
\* an empty plain value and a non-empty encrypted_value yields none, and a
\* token taken from the store is the plain value of the record selected.
C30_NoKeyOffDarwin ==
    platform # "darwin" =>
        /\ keyCalls = 0
        /\ encryptionKey = NoKey
        /\ "key" \notin failures /\ "decrypt" \notin failures
        /\ \A i \in RowIds :
              /\ Len(cookies[i].value) = 0 => ValueOf(i) = Null
              /\ Len(cookies[i].value) > 0 => ValueOf(i) = Str(cookies[i].value)
        /\ selected # 0 => Len(cookies[selected].value) > 0
        /\ (PolicyReturned /\ Truthy(result)) =>
              result = Str(cookies[selected].value)

\* Off darwin the first record holds only an encrypted value and the call
\* returns the plain value of a later record.
C30_Witness ==
    /\ platform = "linux" /\ PolicyReturned
    /\ Len(cookies) > 1
    /\ Len(cookies[1].value) = 0 /\ Len(cookies[1].encrypted_value) > 0
    /\ selected > 1
    /\ result = Str(cookies[selected].value)

\* C26 as stated: without a marker at a non-zero offset, payload recovery
\* returns either the remainder after the 32-byte block or the full decrypted
\* string; the remainder is returned only when the buffer is longer than 32
\* bytes, its first byte is non-printable and the remainder starts with a
\* printable character; with a marker at a non-zero offset the text from the
\* first marker on is returned before either of the other strategies.
C26_RecoveryOrderAndGuard ==
    (dPhase = "done" /\ dOut # Null) =>
        LET d == RecoveryInput
            full == Utf8(d)
            rest == Utf8(SliceFrom(d, MacSize))
            marked == \E i \in MarkerOffsets(d) : i > 0
            skips == /\ Len(d) > MacSize
                     /\ ~Printable(d[1])
                     /\ Len(rest) > 0
                     /\ Printable(rest[1])
        IN /\ marked => dOut = Str(Utf8(SliceFrom(d, FirstMarker(d))))
           /\ ~marked => dOut \in {Str(rest), Str(full)}
           /\ (~marked /\ ~skips) => dOut = Str(full)

\* The bytes occur in what the entry hands to the logger as data.
Mentions(e, bytes) ==
    \/ /\ e.data.kind = "string"
       /\ \E i \in 0..Len(e.data.chars) : OccursAt(e.data.chars, bytes, i)
    \/ /\ e.data.kind = "buffer"
       /\ \E i \in 0..Len(e.data.bytes) : OccursAt(e.data.bytes, bytes, i)

\* C23: no entry logged during a resolution attempt holds the secret of the
\* keychain item or the key derived from it; the key is held by the local of
\* the attempt only, and is gone when the attempt is over; what outlives the
\* attempt (the caller's session cookie and client) is neither of the two.
C23_SecretsNotLeaked ==
    LET secret == keychain.secret
        derived == Pbkdf2(keychain.secret)
    IN /\ \A e \in logged :
             /\ Len(secret) > 0 => ~Mentions(e, secret)
             /\ ~Mentions(e, derived)
             /\ encryptionKey # NoKey => ~Mentions(e, encryptionKey.bytes)
       /\ pc = "idle" => encryptionKey = NoKey
       /\ Len(secret) > 0 =>
             /\ sessionCookie \notin {Str(secret), Str(derived)}
             /\ client.kind = "client" =>
                   client.sessionCookie \notin {Str(secret), Str(derived)}

\* The key was derived from the secret, a record was decrypted with it and
\* returned, and entries were logged on the way.
C23_Witness ==
    /\ pc = "done" /\ keyCalls = 1
    /\ keychain.access = "granted"
    /\ encryptionKey = Key(Pbkdf2(keychain.secret))
    /\ selected # 0 /\ Len(cookies[selected].value) = 0
    /\ Truthy(result)
    /\ \E e \in logged : e.message = "Found Blacksmith session cookie: "

\* ------------------------------------------------------------------------
\* The MCP server (src/src/server.ts), the tools (src/src/tools) and the API
\* methods of the client (src/src/client.ts)
\* ------------------------------------------------------------------------

SessionExpiredError ==
    [kind |-> "error", name |-> "SessionExpiredError", code |-> "SESSION_EXPIRED",
     message |-> "Blacksmith session cookie expired. Please refresh your cookie."]

ApiError(statusCode) ==
    [kind |-> "error", name |-> "ApiError", code |-> "API_ERROR",
     message |-> "API request failed", statusCode |-> statusCode]

\* An Error that is no BlacksmithError: the Error of executeTool, a TypeError.
PlainError(message) ==
    [kind |-> "error", name |-> "Error", code |-> "", message |-> message]

NoOrgMessage ==
    "No organization set. Use list_orgs to see available orgs, then set BLACKSMITH_ORG."

\* formatErrorResponse, as the handler returns it with isError true.
formatErrorResponse(error) ==
    IF error.name = "SessionExpiredError"
    THEN [kind |-> "response", isError |-> TRUE, error |-> "SESSION_EXPIRED",
          message |-> error.message,
          hint |-> "Extract a fresh session cookie from your browser and update BLACKSMITH_SESSION_COOKIE"]
    ELSE IF error.name = "ConfigurationError"
    THEN [kind |-> "response", isError |-> TRUE, error |-> "CONFIGURATION_ERROR",
          message |-> error.message, hint |-> ""]
    ELSE IF error.name = "ApiError"
    THEN [kind |-> "response", isError |-> TRUE, error |-> "API_ERROR",
          message |-> error.message, hint |-> ""]
    ELSE [kind |-> "response", isError |-> TRUE, error |-> "UNKNOWN_ERROR",
          message |-> error.message, hint |-> ""]

\* The response that carries JSON.stringify(result).
ResultResponse ==
    [kind |-> "response", isError |-> FALSE, error |-> "", message |-> "", hint |-> ""]

\* The tools of tools/index.ts with the API method each handler calls first.
ToolMethod ==
    [list_orgs |-> "listOrgs", get_org_status |-> "isPersonalOrg",
     list_runs |-> "listRuns", get_run |-> "getRun", get_job |-> "getJob",
     get_job_logs |-> "getJobLogs", get_job_tests |-> "getJobTests",
     get_failed_tests |-> "getJobTests", get_current_usage |-> "getCurrentUsage",
     get_invoice_amount |-> "getInvoiceAmount"]

ToolNames == DOMAIN ToolMethod

\* A name no tool has.
UnknownTool == "no_such_tool"

\* What the backend answers to a session it accepts; FetchFailed stands for a
\* fetch that rejects.
HttpStatuses == {200, 404, 500}
FetchFailed == 0

\* How a call ended (NoError: it returned) and whether a request was sent.
Outcome(error, requested) == [error |-> error, requested |-> requested]

\* BlacksmithClient.request, lines 74-97.
request(status) ==
    IF status = FetchFailed THEN PlainError("fetch failed")
    ELSE IF status = 401 THEN SessionExpiredError
    ELSE IF status \notin 200..299 THEN ApiError(status)
    ELSE NoError

\* BlacksmithClient.getJobLogs, lines 249-261: its own fetch.
getJobLogsFetch(status) ==
    IF status = FetchFailed THEN PlainError("fetch failed")
    ELSE IF status \notin 200..299 THEN ApiError(status)
    ELSE NoError

\* An API method of the client: listOrgs calls request; the others need the
\* org (getOrg throws without one) and call orgRequest, getJobLogs its own
\* fetch.
ClientMethod(c, method, status) ==
    IF method # "listOrgs" /\ ~Truthy(c.org)
    THEN Outcome(ConfigurationError(NoOrgMessage), FALSE)
    ELSE IF method = "getJobLogs" THEN Outcome(getJobLogsFetch(status), TRUE)
    ELSE Outcome(request(status), TRUE)

\* tool.handler(client, args): on what is no BlacksmithClient the method is
\* undefined and the call a TypeError; the handler of get_job_logs calls
\* split on the object getJobLogs returns.
ToolHandler(c, name, status) ==
    IF c.kind # "client"
    THEN Outcome(PlainError("client method is not a function"), FALSE)
    ELSE LET o == ClientMethod(c, ToolMethod[name], status)
         IN IF o.error = NoError /\ name = "get_job_logs"
            THEN Outcome(PlainError("logs.split is not a function"), TRUE)
            ELSE o

\* executeTool(client, name, args).
executeTool(c, name, status) ==
    IF name \notin ToolNames THEN Outcome(PlainError("Unknown tool"), FALSE)
    ELSE ToolHandler(c, name, status)

\* The promise an async function returns.
Promise(state, value) == [kind |-> "promise", state |-> state, value |-> value]

\* createClientFromEnv() in the environment as it is: the promise of a
\* client, or a promise rejected with the ConfigurationError.
createClientFromEnv ==
    LET t == ResolveFrom(envCookie, platform, files, keychain, store, schema)
    IN IF Truthy(t) THEN Promise("fulfilled", BlacksmithClient(t))
       ELSE Promise("rejected", ConfigurationError(NoSessionMessage))

\* The CallTool handler up to the settlement of `await executeTool(...)`:
\* getClient() stores what createClientFromEnv() returns, once, and hands
\* it to executeTool.
CallToolRequest(name) ==
    /\ alive
    /\ hpc = "idle"
    /\ LET p == IF srvClient = NoClient THEN createClientFromEnv ELSE srvClient
       IN /\ srvClient' = p
          /\ unhandled' = (unhandled \/ (srvClient = NoClient /\ p.state = "rejected"))
          /\ caught' = executeTool(p, name, FetchFailed).error
    /\ tool' = name
    /\ hpc' = "settled"
    /\ UNCHANGED <<alive, response, apiClient, valid, sent, expiredSeen, retry>>
    /\ UNCHANGED <<rvars, dvars, evars, cvars, lvars>>

CallTool == \E name \in ToolNames \cup {UnknownTool} : CallToolRequest(name)

\* The handler returns: the result, or formatErrorResponse of what it caught.
Respond ==
    /\ alive
    /\ hpc = "settled"
    /\ response' = IF caught = NoError THEN ResultResponse
                   ELSE formatErrorResponse(caught)
    /\ expiredSeen' = (expiredSeen \/ caught = SessionExpiredError)
    /\ hpc' = "idle"
    /\ tool' = ""
    /\ caught' = NoError
    /\ UNCHANGED <<srvClient, alive, unhandled, apiClient, valid, sent, retry>>
    /\ UNCHANGED <<rvars, dvars, evars, cvars, lvars>>

\* Nothing handles the rejection of the promise getClient stored: the
\* runtime raises it as an uncaught exception and the process exits, or only
\* warns when it is run with --unhandled-rejections=warn.
UnhandledRejection ==
    /\ alive
    /\ unhandled
    /\ \E mode \in {"throw", "warn"} : alive' = (mode = "warn")
    /\ unhandled' = FALSE
    /\ UNCHANGED <<srvClient, hpc, tool, caught, response, apiClient, valid, sent,
                   expiredSeen, retry>>
    /\ UNCHANGED <<rvars, dvars, evars, cvars, lvars>>

ServerInit ==
    /\ platform = "darwin"
    /\ envCookie \in ProcessOverrides
    /\ RIdle
    /\ DIdle
    /\ files \in SUBSET PathsOf(platform)
    /\ keychain \in {Keychain("denied", <<>>), Keychain("granted", SecretA)}
    /\ store \in Tables
    /\ schema = SelectColumns
    /\ CIdle
    /\ HIdle
    /\ LIdle

ServerNext ==
    \/ CallTool
    \/ Respond
    \/ UnhandledRejection
    \/ SetOverride
    \/ BrowserWrites

\* The server answering CallTool requests while the override and the
\* browser's cookies change.
SpecServer == ServerInit /\ [][ServerNext]_vars

\* C28 as stated: whatever the tool name, and also when no credential
\* resolves, a CallTool request that has settled is answered, with the result
\* or with a formatErrorResponse carrying isError, and no exception or
\* rejected promise ends the server process.
C28_HandlerAlwaysResponds ==
    /\ alive
    /\ hpc = "settled" => ENABLED Respond
    /\ response.kind = "response" =>
          (response.isError <=>
              response.error \in {"SESSION_EXPIRED", "CONFIGURATION_ERROR",
                                  "API_ERROR", "UNKNOWN_ERROR"})

\* ------------------------------------------------------------------------
\* A client in use: executeTool handed the BlacksmithClient that
\* createClientFromEnv resolved to, kept for every later call as getClient
\* keeps what it stored
\* ------------------------------------------------------------------------

\* BLACKSMITH_ORG: unset, or "o".
Orgs == {Null, Str(<<111>>)}

\* new BlacksmithClient({ sessionCookie, org }) with the org kept.
BlacksmithClientOrg(cookie, org) ==
    [kind |-> "client", sessionCookie |-> cookie, org |-> org]

\* The rows the browser writes when the user logs into the application.
LoginRows == {r \in StoreRows : r.host_key = HostApp /\ Len(r.value) > 0}

\* The session tokens of the model: those of the login rows, and "O".
SessionTokens == {r.value : r \in LoginRows} \cup {<<79>>}

\* What the resolver returns in the environment as it is now.
ResolvesNow == ResolveFrom(envCookie, platform, files, keychain, store, schema)

ClientInit ==
    /\ platform = "darwin"
    /\ envCookie \in ProcessOverrides
    /\ RIdle
    /\ DIdle
    /\ files = {CHROME_COOKIE_PATHS["darwin"][1]}
    /\ keychain = Keychain("granted", SecretA)
    /\ store \in {<<r>> : r \in LoginRows}
    /\ schema = SelectColumns
    /\ CIdle
    /\ LIdle
    /\ srvClient = NoClient
    /\ alive = TRUE
    /\ unhandled = FALSE
    /\ hpc = "idle"
    /\ tool = ""
    /\ caught = NoError
    /\ response = NoResponse
    /\ apiClient \in {BlacksmithClientOrg(ResolvesNow, org) : org \in Orgs}
    /\ valid \in SUBSET SessionTokens
    /\ sent = Null
    /\ expiredSeen = FALSE
    /\ retry = FALSE

\* The handler's `await executeTool(client, name, args)` with the client in
\* use: the request carries the client's sessionCookie, and the backend
\* answers 401 to a session it does not accept.
ClientCallToolRequest(name, st) ==
    /\ hpc = "idle"
    /\ LET status == IF st # FetchFailed /\ apiClient.sessionCookie.chars \notin valid
                     THEN 401 ELSE st
           o == executeTool(apiClient, name, status)
       IN /\ caught' = o.error
          /\ sent' = IF o.requested
                     THEN [kind |-> "request", cookie |-> apiClient.sessionCookie,
                           status |-> status]
                     ELSE Null
    /\ retry' = (expiredSeen /\ Truthy(ResolvesNow) /\ ResolvesNow.chars \in valid)
    /\ tool' = name
    /\ hpc' = "settled"
    /\ UNCHANGED <<srvClient, alive, unhandled, response, apiClient, valid, expiredSeen>>
    /\ UNCHANGED <<rvars, dvars, evars, cvars, lvars>>

ClientCallTool ==
    \E name \in ToolNames \cup {UnknownTool}, st \in HttpStatuses \cup {FetchFailed} :
        ClientCallToolRequest(name, st)

\* The backend ends a session.
SessionExpires ==
    /\ hpc = "idle"
    /\ \E t \in valid : valid' = valid \ {t}
    /\ UNCHANGED <<srvClient, alive, unhandled, hpc, tool, caught, response, apiClient,
                   sent, expiredSeen, retry>>
    /\ UNCHANGED <<rvars, dvars, evars, cvars, lvars>>

\* The user logs into the application in the browser: the backend opens a
\* session and the browser stores its cookie.
UserLogsIn ==
    /\ hpc = "idle"
    /\ \E r \in LoginRows :
          /\ <<r>> # store \/ r.value \notin valid
          /\ store' = <<r>>
          /\ valid' = valid \cup {r.value}
    /\ UNCHANGED <<files, keychain, schema>>
    /\ UNCHANGED <<srvClient, alive, unhandled, hpc, tool, caught, response, apiClient,
                   sent, expiredSeen, retry>>
    /\ UNCHANGED <<rvars, dvars, cvars, lvars>>

ClientNext ==
    \/ ClientCallTool
    \/ Respond
    \/ SessionExpires
    \/ UserLogsIn

\* Tool calls made with one client while sessions end and begin.
SpecClient == ClientInit /\ [][ClientNext]_vars

\* C22 as stated: whatever the API method, a request the backend answered
\* with 401 ends in SessionExpiredError, and the handler's response to it
\* carries the code SESSION_EXPIRED and a hint, never API_ERROR or
\* UNKNOWN_ERROR.
C22_ExpiredSessionReported ==
    (sent # Null /\ sent.status = 401) =>
        /\ hpc = "settled" => caught = SessionExpiredError
        /\ (hpc = "idle" /\ response.kind = "response") =>
              /\ response.isError
              /\ response.error = "SESSION_EXPIRED"
              /\ response.hint # ""

====
